---- MODULE Spec2Model ----
(***************************************************************************)
(* Model of vibe/cli/commands.py: the CommandRegistry that resolves        *)
(* slash-commands.  Python str values are TLA+ strings; a dict that keeps  *)
(* insertion order is a sequence of its keys (commands, whose values are   *)
(* the immutable catalog records) or of its values (custom_commands).      *)
(***************************************************************************)
EXTENDS Integers, Sequences, FiniteSets, TLC

VARIABLES
    excluded_commands,  \* the constructor's argument
    command_dir,        \* snapshot of COMMAND_DIR.path: NoDir or the files in enumeration order
    commands,           \* self.commands: the surviving keys, in insertion order
    alias_map,          \* self._alias_map: alias -> key
    custom_commands,    \* self.custom_commands: CustomCommand records, in insertion order
    pc,                 \* position of the constructor / state of the registry
    i,                  \* index of the constructor's loop over excluded_commands
    j,                  \* index of the loop over the globbed files
    call                \* the last resolution / help call and what it returned

vars == <<excluded_commands, command_dir, commands, alias_map, custom_commands, pc, i, j, call>>

(***************************************************************************)
(* Bounds                                                                  *)
(***************************************************************************)
MaxExcluded == 2
MaxFiles == 2

(***************************************************************************)
(* Python str operations                                                   *)
(***************************************************************************)
Char(s, n) == SubSeq(s, n, n)

\* The characters str.strip() and str.split() treat as whitespace (str.isspace), as far
\* as a TLA+ string can hold them: the ASCII ones and U+0085, U+00A0.  Those with no
\* escape are written as the character itself.  A character is a string of length 1:
\* where the module is read in an encoding that has no U+0085 or U+00A0, no string holds
\* them and the set is the ASCII whitespace.  The Unicode spaces above U+00FF (U+1680,
\* U+2000..U+200A, U+2028, U+2029, U+202F, U+205F, U+3000) occur in no TLA+ string.
VerticalTab == ""

FileSeparator == ""

GroupSeparator == ""

RecordSeparator == ""

UnitSeparator == ""

Whitespace ==
    {c \in {" ", "\t", "\n", "\r", "\f", VerticalTab, FileSeparator, GroupSeparator,
            RecordSeparator, UnitSeparator, "", " "} : Len(c) = 1}

\* str.lower() on the characters a TLA+ string can hold: A-Z and the Latin-1 capitals
\* U+00C0..U+00DE without U+00D7, each paired with its lower-case letter at the same index
UpperChars == "ABCDEFGHIJKLMNOPQRSTUVWXYZÀÁÂÃÄÅÆÇÈÉÊËÌÍÎÏÐÑÒÓÔÕÖØÙÚÛÜÝÞ"

LowerChars == "abcdefghijklmnopqrstuvwxyzàáâãäåæçèéêëìíîïðñòóôõöøùúûüýþ"

\* the table as a mapping: each capital to the letter at its index in LowerChars
LowerOf ==
    [c \in {Char(UpperChars, n) : n \in 1..Len(UpperChars)} |->
        Char(LowerChars, CHOOSE n \in 1..Len(UpperChars) : Char(UpperChars, n) = c)]

lower_char(c) == IF c \in DOMAIN LowerOf THEN LowerOf[c] ELSE c

RECURSIVE lower(_)
lower(s) == IF s = "" THEN "" ELSE lower_char(Char(s, 1)) \o lower(Tail(s))

RECURSIVE lstrip(_)
lstrip(s) == IF s # "" /\ Char(s, 1) \in Whitespace THEN lstrip(Tail(s)) ELSE s

RECURSIVE rstrip(_)
rstrip(s) ==
    IF s # "" /\ Char(s, Len(s)) \in Whitespace THEN rstrip(SubSeq(s, 1, Len(s) - 1)) ELSE s

strip(s) == rstrip(lstrip(s))

startswith(s, p) == Len(s) >= Len(p) /\ SubSeq(s, 1, Len(p)) = p

endswith(s, p) == Len(s) >= Len(p) /\ SubSeq(s, Len(s) - Len(p) + 1, Len(s)) = p

\* index of the first whitespace character of s, Len(s) + 1 when there is none
first_space(s) ==
    IF \E n \in 1..Len(s) : Char(s, n) \in Whitespace
    THEN CHOOSE n \in 1..Len(s) :
            /\ Char(s, n) \in Whitespace
            /\ \A m \in 1..(n - 1) : Char(s, m) \notin Whitespace
    ELSE Len(s) + 1

\* s.split(maxsplit=1): the list of at most two pieces
split_maxsplit1(s) ==
    LET t == lstrip(s) IN
    IF t = "" THEN <<>>
    ELSE LET n    == first_space(t)
             rest == lstrip(SubSeq(t, n, Len(t)))
         IN IF rest = "" THEN <<SubSeq(t, 1, n - 1)>> ELSE <<SubSeq(t, 1, n - 1), rest>>

\* s.split("\n")[0]
first_line_of(s) ==
    IF \E n \in 1..Len(s) : Char(s, n) = "\n"
    THEN SubSeq(s, 1, (CHOOSE n \in 1..Len(s) :
                          Char(s, n) = "\n" /\ \A m \in 1..(n - 1) : Char(s, m) # "\n") - 1)
    ELSE s

RECURSIVE join(_, _)
join(sep, lines) ==
    IF lines = <<>> THEN ""
    ELSE IF Len(lines) = 1 THEN lines[1]
    ELSE lines[1] \o sep \o join(sep, Tail(lines))

\* code-point order of the characters that occur in aliases
AsciiChars == "-/abcdefghijklmnopqrstuvwxyz"

Ord(c) == CHOOSE n \in 1..Len(AsciiChars) : Char(AsciiChars, n) = c

RECURSIVE str_less(_, _)
str_less(a, b) ==
    IF b = "" THEN FALSE
    ELSE IF a = "" THEN TRUE
    ELSE IF Char(a, 1) = Char(b, 1) THEN str_less(Tail(a), Tail(b))
    ELSE Ord(Char(a, 1)) < Ord(Char(b, 1))

\* variant: descending order
RECURSIVE sorted_reversed(_)
sorted_reversed(S) ==
    IF S = {} THEN <<>>
    ELSE LET x == CHOOSE y \in S : \A z \in S \ {y} : str_less(z, y)
         IN <<x>> \o sorted_reversed(S \ {x})

RECURSIVE sorted(_)
sorted(S) ==
    IF S = {} THEN <<>>
    ELSE LET x == CHOOSE y \in S : \A z \in S \ {y} : str_less(y, z)
         IN <<x>> \o sorted(S \ {x})

(***************************************************************************)
(* Command, CustomCommand and the built-in catalog                         *)
(***************************************************************************)
None == [type |-> "None"]

Command(aliases, description, handler, exits) ==
    [type |-> "Command", aliases |-> aliases, description |-> description,
     handler |-> handler, exits |-> exits]

CustomCommand(name, template) ==
    [type |-> "CustomCommand", name |-> name, template |-> template]

CustomCommand_aliases(cmd) == {"/" \o cmd.name}

FirstLineLimit == 50

CustomCommand_description(cmd) ==
    LET line       == first_line_of(cmd.template)
        first_line == SubSeq(line, 1, IF Len(line) < FirstLineLimit THEN Len(line) ELSE FirstLineLimit)
    IN IF first_line # "" THEN "Custom: " \o first_line \o "..." ELSE "Custom command"

\* the keys of the dict literal, in insertion order
CatalogKeys ==
    <<"help", "config", "reload", "clear", "log", "compact", "exit", "terminal-setup", "status">>

Catalog ==
    [k \in {CatalogKeys[n] : n \in 1..Len(CatalogKeys)} |->
        CASE k = "help"    -> Command({"/help"}, "Show help message", "_show_help", FALSE)
          [] k = "config"  -> Command({"/config", "/theme", "/model"}, "Edit config settings",
                                      "_show_config", FALSE)
          [] k = "reload"  -> Command({"/reload"}, "Reload configuration from disk",
                                      "_reload_config", FALSE)
          [] k = "clear"   -> Command({"/clear"}, "Clear conversation history",
                                      "_clear_history", FALSE)
          [] k = "log"     -> Command({"/log"}, "Show path to current interaction log file",
                                      "_show_log_path", FALSE)
          [] k = "compact" -> Command({"/compact"}, "Compact conversation history by summarizing",
                                      "_compact_history", FALSE)
          [] k = "exit"    -> Command({"/exit"}, "Exit the application", "_exit_app", TRUE)
          [] k = "terminal-setup" -> Command({"/terminal-setup"},
                                      "Configure Shift+Enter for newlines", "_setup_terminal", FALSE)
          [] k = "status"  -> Command({"/status"}, "Display agent statistics",
                                      "_show_status", FALSE)]

Range(seq) == {seq[n] : n \in 1..Len(seq)}

\* variant: the exclusion removes nothing
dict_pop_keep(keys, key) == keys

\* dict.pop(key, None) on an insertion-ordered dict
dict_pop(keys, key) == SelectSeq(keys, LAMBDA k : k # key)

\* the two nested loops that fill _alias_map; a later assignment overwrites an earlier one
RECURSIVE alias_fold(_)
alias_fold(keys) ==
    IF keys = <<>> THEN <<>>
    ELSE LET before   == alias_fold(SubSeq(keys, 1, Len(keys) - 1))
             cmd_name == keys[Len(keys)]
             aliases  == Catalog[cmd_name].aliases
         IN [a \in (DOMAIN before) \cup aliases |->
                IF a \in aliases THEN cmd_name ELSE before[a]]

\* variant: the alias index is derived before the exclusion is applied
derive_alias_map_before_exclusion(keys) == alias_fold(CatalogKeys)

\* variant: one alias per command, "/" + its key
derive_alias_map_from_keys(keys) == [a \in {"/" \o keys[n] : n \in 1..Len(keys)} |-> Tail(a)]

\* the alias index is derived from self.commands as it is after the exclusion loop
derive_alias_map(keys) == alias_fold(keys)

(***************************************************************************)
(* The custom-command directory                                            *)
(***************************************************************************)
File(name, readable, text) == [name |-> name, readable |-> readable, text |-> text]

\* Path.glob("*.md") over the directory's entries
glob_md(files) == SelectSeq(files, LAMBDA f : endswith(f.name, ".md"))

\* PurePath.stem: the name without its last suffix
stem(name) ==
    LET dots == {n \in 1..Len(name) : Char(name, n) = "."}
        last == IF dots = {} THEN 0 ELSE CHOOSE n \in dots : \A m \in dots : m <= n
    IN IF last > 1 /\ last < Len(name) THEN SubSeq(name, 1, last - 1) ELSE name

is_private(name) == startswith(name, "_")

\* variant: no collision check
conflicts_never(name, amap) == FALSE

\* f"/{name}" in self._alias_map
conflicts_with_builtin(name, amap) == ("/" \o name) \in DOMAIN amap

\* d[name] = value on an insertion-ordered dict of CustomCommand records
dict_set(d, name, value) ==
    IF \E n \in 1..Len(d) : d[n].name = name
    THEN [n \in 1..Len(d) |-> IF d[n].name = name THEN value ELSE d[n]]
    ELSE Append(d, value)

\* d.get(name) on the same dict
dict_get(d, name) ==
    IF \E n \in 1..Len(d) : d[n].name = name
    THEN d[CHOOSE n \in 1..Len(d) : d[n].name = name]
    ELSE None

(***************************************************************************)
(* Resolution and help text                                                *)
(***************************************************************************)
KeyError == [type |-> "KeyError"]

\* variant: the input is trimmed but not lowercased
find_command_no_lower(amap, cmds, user_input) ==
    LET key == strip(user_input) IN
    IF key \in DOMAIN amap /\ amap[key] \in Range(cmds) THEN Catalog[amap[key]] ELSE None

find_command(amap, cmds, user_input) ==
    LET key      == strip(lower(user_input))
        cmd_name == IF key \in DOMAIN amap THEN amap[key] ELSE ""
    IN IF cmd_name # ""
       THEN (IF cmd_name \in Range(cmds) THEN Catalog[cmd_name] ELSE None)
       ELSE None

\* variant: the argument string is returned even when nothing matches
find_command_with_args_keep_args(amap, cmds, custom, user_input) ==
    LET parts   == split_maxsplit1(strip(user_input))
        cmd_str == IF parts # <<>> THEN lower(parts[1]) ELSE ""
        args    == IF Len(parts) > 1 THEN parts[2] ELSE ""
    IN IF cmd_str \in DOMAIN amap THEN <<Catalog[amap[cmd_str]], args>>
       ELSE IF startswith(cmd_str, "/") /\ dict_get(custom, Tail(cmd_str)) # None
            THEN <<dict_get(custom, Tail(cmd_str)), args>>
            ELSE <<None, args>>

\* variant: the token is not lowercased
find_command_with_args_no_lower(amap, cmds, custom, user_input) ==
    LET parts   == split_maxsplit1(strip(user_input))
        cmd_str == IF parts # <<>> THEN parts[1] ELSE ""
        args    == IF Len(parts) > 1 THEN parts[2] ELSE ""
    IN IF cmd_str \in DOMAIN amap THEN <<Catalog[amap[cmd_str]], args>>
       ELSE IF startswith(cmd_str, "/") /\ dict_get(custom, Tail(cmd_str)) # None
            THEN <<dict_get(custom, Tail(cmd_str)), args>>
            ELSE <<None, "">>

find_command_with_args(amap, cmds, custom, user_input) ==
    LET parts    == split_maxsplit1(strip(user_input))
        cmd_str  == IF parts # <<>> THEN lower(parts[1]) ELSE ""
        args     == IF Len(parts) > 1 THEN parts[2] ELSE ""
        cmd_name == IF cmd_str \in DOMAIN amap THEN amap[cmd_str] ELSE ""
    IN IF cmd_name # ""
       THEN (IF cmd_name \in Range(cmds) THEN <<Catalog[cmd_name], args>> ELSE KeyError)
       ELSE IF startswith(cmd_str, "/")
            THEN LET custom_name == Tail(cmd_str)
                     custom_cmd  == dict_get(custom, custom_name)
                 IN IF custom_cmd # None THEN <<custom_cmd, args>> ELSE <<None, "">>
            ELSE <<None, "">>

\* A TLA+ string cannot hold the backquote character: the apostrophe, which occurs
\* nowhere in the source's strings, stands for it in the help text.
BackQuote == "'"

Preamble ==
    << "### Keyboard Shortcuts",
       "",
       "- 'Enter' Submit message",
       "- 'Ctrl+J' / 'Shift+Enter' Insert newline",
       "- 'Escape' Interrupt agent or close dialogs",
       "- 'Ctrl+C' Quit (or clear input if text present)",
       "- 'Ctrl+O' Toggle tool output view",
       "- 'Ctrl+T' Toggle todo view",
       "- 'Shift+Tab' Toggle auto-approve mode",
       "",
       "### Special Features",
       "",
       "- '!<command>' Execute bash command directly",
       "- '@path/to/file/' Autocompletes file paths",
       "",
       "### Commands",
       "" >>

quote_all(seq) == [n \in 1..Len(seq) |-> BackQuote \o seq[n] \o BackQuote]

command_line(cmd) == "- " \o join(", ", quote_all(sorted(cmd.aliases))) \o ": " \o cmd.description

custom_line(cmd) == "- " \o BackQuote \o "/" \o cmd.name \o BackQuote \o ": " \o CustomCommand_description(cmd)

\* the list 'lines' of get_help_text
help_lines(cmds, custom) ==
    Preamble
    \o [n \in 1..Len(cmds) |-> command_line(Catalog[cmds[n]])]
    \o (IF custom # <<>>
        THEN <<"", "### Custom Commands", "">> \o [n \in 1..Len(custom) |-> custom_line(custom[n])]
        ELSE <<>>)

get_help_text(cmds, custom) == join("\n", help_lines(cmds, custom))

(***************************************************************************)
(* The inputs: exclusion lists, directory snapshots, typed text            *)
(***************************************************************************)
ExcludedPool == {"exit", "config", "nokey"}

LongLine == "Deploy the current branch to the environment named $ARGUMENTS"

FilePool ==
    { File("review.md", TRUE, "Review $ARGUMENTS please"),
      File("help.md", TRUE, "Help me with $ARGUMENTS"),
      File("_draft.md", TRUE, "draft"),
      File("exit.md", TRUE, ""),
      File("Deploy.md", TRUE, LongLine \o "\nThen report the result."),
      File("locked.md", FALSE, ""),
      File("notes.txt", TRUE, "notes") }

BoundedSeq(S, n) == UNION {[1..m -> S] : m \in 0..n}

Injective(seq) == \A m, n \in 1..Len(seq) : m # n => seq[m] # seq[n]

Directory(is_dir, files) == [is_dir |-> is_dir, files |-> files]

NoDir == Directory(FALSE, <<>>)

\* a directory holds each file name once; the sequence is the order of enumeration
Directories ==
    {NoDir} \cup {Directory(TRUE, fs) : fs \in {q \in BoundedSeq(FilePool, MaxFiles) : Injective(q)}}

\* exclusion lists, each key at most once
ExclusionLists == {q \in BoundedSeq(ExcludedPool, MaxExcluded) : Injective(q)}

Tokens ==
    {"/help", "/HELP", "/Theme", "/exit", "/config", "/review", "/REVIEW", "/Deploy",
     "/deploy", "/unknown-thing", "/", "help"}

PaddedTokens == {"/HELP", "/Theme", "/exit", "/review", "/unknown-thing"}

ArgTokens == {"/config", "/HELP", "/exit", "/review", "/Deploy", "/theme"}

ArgStrings == {"dark", "PR#1"}

Inputs ==
    Tokens
    \cup {" \r" \o t \o "\f" \o FileSeparator \o "\n" : t \in PaddedTokens}
    \cup {t \o " " \o a : t \in ArgTokens, a \in ArgStrings}
    \cup {"/config\tdark  ", "\t/Review  a  b \n", "/unknown-thing foo"}
    \cup {"/config\rdark", "/review\fPR#1" \o VerticalTab, "/help" \o UnitSeparator \o " "}
    \cup {"", " \r"}

NoCall == [op |-> "none", user_input |-> "", ret |-> None]

(***************************************************************************)
(* CommandRegistry.__init__                                                *)
(***************************************************************************)
Init ==
    /\ excluded_commands \in ExclusionLists
    /\ command_dir \in Directories
    /\ commands = CatalogKeys
    /\ alias_map = <<>>
    /\ custom_commands = <<>>
    /\ pc = "exclude"
    /\ i = 1
    /\ j = 1
    /\ call = NoCall

\* one iteration of `for command in excluded_commands: self.commands.pop(command, None)`
PopExcluded ==
    /\ pc = "exclude"
    /\ i <= Len(excluded_commands)
    /\ commands' = dict_pop(commands, excluded_commands[i])
    /\ i' = i + 1
    /\ UNCHANGED <<excluded_commands, command_dir, alias_map, custom_commands, pc, j, call>>

\* the alias loops, entered once the exclusion loop is over
BuildAliasMap ==
    /\ pc = "exclude"
    /\ i > Len(excluded_commands)
    /\ alias_map' = derive_alias_map(commands)
    /\ pc' = "load"
    /\ UNCHANGED <<excluded_commands, command_dir, commands, custom_commands, i, j, call>>

\* _load_custom_commands: `if not COMMAND_DIR.path.is_dir(): return`
LoadNoDir ==
    /\ pc = "load"
    /\ ~command_dir.is_dir
    /\ pc' = "ready"
    /\ UNCHANGED <<excluded_commands, command_dir, commands, alias_map, custom_commands, i, j, call>>

cmd_file == glob_md(command_dir.files)[j]

InLoadLoop == pc = "load" /\ command_dir.is_dir /\ j <= Len(glob_md(command_dir.files))

\* `if name.startswith("_"): continue`
LoadSkipPrivate ==
    /\ InLoadLoop
    /\ is_private(stem(cmd_file.name))
    /\ j' = j + 1
    /\ UNCHANGED <<excluded_commands, command_dir, commands, alias_map, custom_commands, pc, i, call>>

\* `if f"/{name}" in self._alias_map: continue`
LoadSkipConflict ==
    /\ InLoadLoop
    /\ ~is_private(stem(cmd_file.name))
    /\ conflicts_with_builtin(stem(cmd_file.name), alias_map)
    /\ j' = j + 1
    /\ UNCHANGED <<excluded_commands, command_dir, commands, alias_map, custom_commands, pc, i, call>>

\* read_text() succeeds and the command is registered
LoadRegister ==
    /\ InLoadLoop
    /\ ~is_private(stem(cmd_file.name))
    /\ ~conflicts_with_builtin(stem(cmd_file.name), alias_map)
    /\ cmd_file.readable
    /\ custom_commands' = dict_set(custom_commands, stem(cmd_file.name),
                                   CustomCommand(stem(cmd_file.name), cmd_file.text))
    /\ j' = j + 1
    /\ UNCHANGED <<excluded_commands, command_dir, commands, alias_map, pc, i, call>>

\* read_text() raises (OSError, UnicodeDecodeError); nothing catches it, the constructor raises
LoadReadError ==
    /\ InLoadLoop
    /\ ~is_private(stem(cmd_file.name))
    /\ ~conflicts_with_builtin(stem(cmd_file.name), alias_map)
    /\ ~cmd_file.readable
    /\ pc' = "raised"
    /\ UNCHANGED <<excluded_commands, command_dir, commands, alias_map, custom_commands, i, j, call>>

\* the glob is exhausted: the constructor returns
LoadDone ==
    /\ pc = "load"
    /\ command_dir.is_dir
    /\ j > Len(glob_md(command_dir.files))
    /\ pc' = "ready"
    /\ UNCHANGED <<excluded_commands, command_dir, commands, alias_map, custom_commands, i, j, call>>

(***************************************************************************)
(* Calls on the constructed registry                                       *)
(***************************************************************************)
\* the registry is idle: the constructor has returned and no result is pending
Idle == pc = "ready" /\ call = NoCall

FindCommand ==
    /\ Idle
    /\ \E user_input \in Inputs :
          call' = [op |-> "find_command", user_input |-> user_input,
                   ret |-> find_command(alias_map, commands, user_input)]
    /\ UNCHANGED <<excluded_commands, command_dir, commands, alias_map, custom_commands, pc, i, j>>

FindCommandWithArgs ==
    /\ Idle
    /\ \E user_input \in Inputs :
          call' = [op |-> "find_command_with_args", user_input |-> user_input,
                   ret |-> find_command_with_args(alias_map, commands, custom_commands, user_input)]
    /\ UNCHANGED <<excluded_commands, command_dir, commands, alias_map, custom_commands, pc, i, j>>

GetHelpText ==
    /\ Idle
    /\ call' = [op |-> "get_help_text", user_input |-> "",
                ret |-> get_help_text(commands, custom_commands)]
    /\ UNCHANGED <<excluded_commands, command_dir, commands, alias_map, custom_commands, pc, i, j>>

\* the caller takes the returned value; the registry is ready for the next call
Return ==
    /\ pc = "ready"
    /\ call # NoCall
    /\ call' = NoCall
    /\ UNCHANGED <<excluded_commands, command_dir, commands, alias_map, custom_commands, pc, i, j>>

Next ==
    \/ PopExcluded
    \/ BuildAliasMap
    \/ LoadNoDir
    \/ LoadSkipPrivate
    \/ LoadSkipConflict
    \/ LoadRegister
    \/ LoadReadError
    \/ LoadDone
    \/ FindCommand
    \/ FindCommandWithArgs
    \/ GetHelpText
    \/ Return

Spec == Init /\ [][Next]_vars

(***************************************************************************)
(* Vocabulary of the properties, stated without the operators above        *)
(***************************************************************************)
same_ignoring_case(a, b) ==
    Len(a) = Len(b) /\ \A n \in 1..Len(a) : lower_char(Char(a, n)) = lower_char(Char(b, n))

has_no_upper(a) == \A n \in 1..Len(a) : lower_char(Char(a, n)) = Char(a, n)

\* x is what lowercasing tok gives
lowers_to(tok, x) == same_ignoring_case(tok, x) /\ has_no_upper(x)

NonWs(u) == {n \in 1..Len(u) : Char(u, n) \notin Whitespace}

\* u is a (which neither starts nor ends with whitespace) in some letter case, between
\* leading and trailing whitespace
padded_variant(u, a) ==
    LET nw == NonWs(u) IN
    /\ nw # {}
    /\ same_ignoring_case(SubSeq(u, CHOOSE n \in nw : \A m \in nw : n <= m,
                                    CHOOSE n \in nw : \A m \in nw : m <= n), a)

\* <<token, argument string>> of u: the token is the first maximal run of non-whitespace
\* characters, the argument string runs from the first to the last non-whitespace
\* character after the token
token_and_args(u) ==
    LET nw    == NonWs(u)
        start == CHOOSE n \in nw : \A m \in nw : n <= m
        stop  == CHOOSE n \in nw : n >= start /\ (n + 1) \notin nw /\ \A m \in start..n : m \in nw
        after == {n \in nw : n > stop}
    IN IF nw = {} THEN <<"", "">>
       ELSE <<SubSeq(u, start, stop),
              IF after = {} THEN ""
              ELSE SubSeq(u, CHOOSE n \in after : \A m \in after : n <= m,
                             CHOOSE n \in after : \A m \in after : m <= n)>>

token_of(u) == token_and_args(u)[1]

args_of(u) == token_and_args(u)[2]

\* the built-in keys the exclusion list leaves
Survivors == {k \in DOMAIN Catalog : k \notin Range(excluded_commands)}

SurvivorsInOrder == SelectSeq(CatalogKeys, LAMBDA k : k \in Survivors)

Returned(op) == pc = "ready" /\ call.op = op

(***************************************************************************)
(* C1                                                                      *)
(***************************************************************************)
\* C1: find_command on any alias of a surviving built-in, in any letter case and with
\* leading or trailing whitespace, returns exactly that built-in command.
C1_AliasResolves ==
    Returned("find_command") =>
        \A k \in Survivors : \A a \in Catalog[k].aliases :
            padded_variant(call.user_input, a) => call.ret = Catalog[k]

C1_Witness ==
    /\ Returned("find_command")
    /\ call.user_input = " \r/Theme\f" \o FileSeparator \o "\n"
    /\ call.ret = Catalog["config"]
    /\ custom_commands # <<>>
    /\ excluded_commands # <<>>

(***************************************************************************)
(* C2                                                                      *)
(***************************************************************************)
\* C2: find_command_with_args splits the trimmed input into token and argument string,
\* lowercases the token and returns (built-in, args) when the token is in the alias map,
\* else (custom command, args) when the token is "/" + a custom name, else (None, "").
C2_ResolutionOrder ==
    Returned("find_command_with_args") =>
        LET tok  == token_of(call.user_input)
            args == args_of(call.user_input)
        IN IF \E a \in DOMAIN alias_map : lowers_to(tok, a)
           THEN \A a \in DOMAIN alias_map :
                    lowers_to(tok, a) => call.ret = <<Catalog[alias_map[a]], args>>
           ELSE IF startswith(tok, "/")
                   /\ \E c \in Range(custom_commands) : lowers_to(tok, "/" \o c.name)
                THEN \A c \in Range(custom_commands) :
                        lowers_to(tok, "/" \o c.name) => call.ret = <<c, args>>
                ELSE call.ret = <<None, "">>

C2_Witness ==
    /\ Returned("find_command_with_args")
    /\ call.user_input = "/config dark"
    /\ call.ret = <<Catalog["config"], "dark">>

(***************************************************************************)
(* C3                                                                      *)
(***************************************************************************)
\* C3: built-ins win: no registered custom command is named like a built-in alias, and
\* an input whose token matches a built-in alias gets the built-in, never a custom command.
C3_BuiltinsWin ==
    pc = "ready" =>
        /\ \A c \in Range(custom_commands) : ("/" \o c.name) \notin DOMAIN alias_map
        /\ call.op = "find_command_with_args" =>
              LET tok == token_of(call.user_input) IN
              \A k \in Survivors : \A a \in Catalog[k].aliases :
                  same_ignoring_case(tok, a) => call.ret[1] = Catalog[k]

C3_Witness ==
    /\ Returned("find_command_with_args")
    /\ \E n \in 1..Len(command_dir.files) : command_dir.files[n].name = "help.md"
    /\ "help" \in Survivors
    /\ custom_commands # <<>>
    /\ call.user_input = "/help"
    /\ call.ret = <<Catalog["help"], "">>

(***************************************************************************)
(* C4                                                                      *)
(***************************************************************************)
\* C4: every registered custom command n is reached by "/" + n + " " + a, which returns
\* that custom command together with a.
C4_CustomInvokedByFilename ==
    Returned("find_command_with_args") =>
        \A c \in Range(custom_commands) : \A a \in ArgStrings :
            call.user_input = "/" \o c.name \o " " \o a => call.ret = <<c, a>>

(***************************************************************************)
(* C5                                                                      *)
(***************************************************************************)
Eligible(f) ==
    /\ endswith(f.name, ".md")
    /\ ~startswith(f.name, "_")
    /\ \A k \in Survivors : \A a \in Catalog[k].aliases : f.name # Tail(a) \o ".md"

\* C5: an unreadable file does not abort discovery: the constructor completes and every
\* other readable, eligible markdown file is registered.
C5_UnreadableFileSkipped ==
    (\E f \in Range(command_dir.files) : Eligible(f) /\ ~f.readable) =>
        /\ pc # "raised"
        /\ pc = "ready" =>
              \A f \in Range(command_dir.files) :
                  Eligible(f) /\ f.readable =>
                      \E c \in Range(custom_commands) : c.name \o ".md" = f.name

(***************************************************************************)
(* C6                                                                      *)
(***************************************************************************)
\* C6: an excluded key is gone from commands and its aliases from resolution, every other
\* built-in keeps its place and its aliases, and an unknown excluded key changes nothing.
C6_Exclusion ==
    pc = "ready" =>
        LET tok == token_of(call.user_input) IN
        /\ \A k \in Range(excluded_commands) : k \notin Range(commands)
        /\ \A k \in Range(excluded_commands) \cap DOMAIN Catalog : \A a \in Catalog[k].aliases :
              /\ a \notin DOMAIN alias_map
              /\ call.op = "find_command" /\ padded_variant(call.user_input, a)
                    => call.ret = None
              /\ ( /\ call.op = "find_command_with_args"
                   /\ same_ignoring_case(tok, a)
                   /\ \A c \in Range(custom_commands) : "/" \o c.name # a )
                    => call.ret = <<None, "">>
        /\ commands = SurvivorsInOrder
        /\ \A k \in Survivors : \A a \in Catalog[k].aliases :
              a \in DOMAIN alias_map /\ alias_map[a] = k

C6_Witness ==
    /\ Returned("find_command")
    /\ excluded_commands = <<"nokey", "exit">>
    /\ call.user_input = "/exit"
    /\ call.ret = None
    /\ Len(commands) = Len(CatalogKeys) - 1

(***************************************************************************)
(* C7                                                                      *)
(***************************************************************************)
FileNamed(name) == CHOOSE f \in Range(command_dir.files) : f.name = name

HasFile(name) == \E f \in Range(command_dir.files) : f.name = name

\* C7: exclusion precedes alias derivation, which precedes the scan: a readable file named
\* after an alias of an excluded built-in is registered and resolves, one named after an
\* alias of a surviving built-in is dropped.
C7_ExcludedAliasesReusable ==
    pc = "ready" =>
        \A k \in DOMAIN Catalog : \A a \in Catalog[k].aliases :
            HasFile(Tail(a) \o ".md") /\ FileNamed(Tail(a) \o ".md").readable =>
                LET cmd == CustomCommand(Tail(a), FileNamed(Tail(a) \o ".md").text) IN
                IF k \in Range(excluded_commands)
                THEN /\ cmd \in Range(custom_commands)
                     /\ call.op = "find_command_with_args" /\ call.user_input = a
                           => call.ret = <<cmd, "">>
                ELSE \A c \in Range(custom_commands) : c.name # Tail(a)

C7_Witness ==
    /\ Returned("find_command_with_args")
    /\ "exit" \in Range(excluded_commands)
    /\ "help" \in Survivors
    /\ HasFile("exit.md")
    /\ HasFile("help.md")
    /\ call.user_input = "/exit"
    /\ call.ret = <<CustomCommand("exit", ""), "">>
    /\ Len(custom_commands) = 1

(***************************************************************************)
(* C8                                                                      *)
(***************************************************************************)
\* the token of u is, in any letter case, neither a built-in alias nor "/" + a custom name
Unrecognized(u) ==
    LET tok == token_of(u) IN
    /\ \A k \in Survivors : \A a \in Catalog[k].aliases : ~same_ignoring_case(tok, a)
    /\ \A c \in Range(custom_commands) : ~same_ignoring_case(tok, "/" \o c.name)

\* C8: resolution never raises; on unrecognized input find_command returns None and
\* find_command_with_args returns (None, "") whatever followed the token; find_command
\* never returns a custom command.
C8_AbsenceNotError ==
    /\ Returned("find_command") =>
          /\ call.ret.type \in {"None", "Command"}
          /\ Unrecognized(call.user_input) => call.ret = None
    /\ Returned("find_command_with_args") =>
          /\ call.ret # KeyError
          /\ Unrecognized(call.user_input) => call.ret = <<None, "">>

C8_Witness ==
    /\ Returned("find_command_with_args")
    /\ call.user_input = "/unknown-thing foo"
    /\ call.ret = <<None, "">>
    /\ custom_commands # <<>>

(***************************************************************************)
(* C9                                                                      *)
(***************************************************************************)
\* the line of each built-in as the help text shows it
ExpectedLine ==
    [k \in DOMAIN Catalog |->
        CASE k = "help"    -> "- '/help': Show help message"
          [] k = "config"  -> "- '/config', '/model', '/theme': Edit config settings"
          [] k = "reload"  -> "- '/reload': Reload configuration from disk"
          [] k = "clear"   -> "- '/clear': Clear conversation history"
          [] k = "log"     -> "- '/log': Show path to current interaction log file"
          [] k = "compact" -> "- '/compact': Compact conversation history by summarizing"
          [] k = "exit"    -> "- '/exit': Exit the application"
          [] k = "terminal-setup" -> "- '/terminal-setup': Configure Shift+Enter for newlines"
          [] k = "status"  -> "- '/status': Display agent statistics"]

\* the line of each custom command the directory can supply
ExpectedCustomLine(name) ==
    CASE name = "review" -> "- '/review': Custom: Review $ARGUMENTS please..."
      [] name = "help"   -> "- '/help': Custom: Help me with $ARGUMENTS..."
      [] name = "exit"   -> "- '/exit': Custom command"
      [] name = "Deploy" -> "- '/Deploy': Custom: Deploy the current branch to the environment named..."
      [] OTHER           -> "?"

RECURSIVE Lines(_)
Lines(seq) == IF seq = <<>> THEN "" ELSE "\n" \o Head(seq) \o Lines(Tail(seq))

\* C9: the help text is the preamble, one line per surviving built-in in catalog order with
\* its aliases sorted, quoted and comma-joined, and a Custom Commands section exactly when
\* there are custom commands.
C9_HelpText ==
    Returned("get_help_text") =>
        call.ret =
            Tail(Lines(Preamble))
            \o Lines([n \in 1..Len(SurvivorsInOrder) |-> ExpectedLine[SurvivorsInOrder[n]]])
            \o (IF custom_commands = <<>> THEN ""
                ELSE "\n\n### Custom Commands\n"
                     \o Lines([n \in 1..Len(custom_commands) |->
                                 ExpectedCustomLine(custom_commands[n].name)]))

C9_Witness ==
    /\ Returned("get_help_text")
    /\ "exit" \in Range(excluded_commands)
    /\ "config" \in Survivors
    /\ Len(custom_commands) = 2

(***************************************************************************)
(* C10                                                                     *)
(***************************************************************************)
AliasMapExact ==
    /\ DOMAIN alias_map = UNION {Catalog[k].aliases : k \in Range(commands)}
    /\ \A a \in DOMAIN alias_map :
          alias_map[a] \in Range(commands) /\ a \in Catalog[alias_map[a]].aliases

\* C10: once constructed, the alias map is exactly the aliases of the commands present,
\* each mapped to its owner, and no call changes commands, the alias map or the custom
\* commands.
C10_AliasMapConsistent ==
    /\ [](pc = "ready" => AliasMapExact)
    /\ [][pc = "ready" => UNCHANGED <<commands, alias_map, custom_commands>>]_vars

C10_Witness ==
    /\ Returned("find_command_with_args")
    /\ "config" \in Range(excluded_commands)
    /\ call.ret[1].type = "CustomCommand"

====
